---------------------------- MODULE Spec2Model ----------------------------
(* kenwoodutil (main.go): the serial command channel of a Kenwood radio,   *)
(* the memory-channel codec (ME / MN lines) and the memory bank read and   *)
(* write loops.  Text is modelled as sequences of one-character strings,   *)
(* so that formatting and scanning are computed, character by character.   *)
EXTENDS Integers, Sequences, FiniteSets, TLC

(***************************************************************************)
(* Bounds of the model                                                     *)
(***************************************************************************)
\* number of slots of the bank (1000 in main.go: make([]MemoryEntry, 1000))
NSlots == 3

(***************************************************************************)
(* Text helpers                                                            *)
(***************************************************************************)
CR == "\r"
Digits == <<"0", "1", "2", "3", "4", "5", "6", "7", "8", "9">>
IsDigit(c) == \E k \in 1..10 : Digits[k] = c
DigitVal(c) == (CHOOSE k \in 1..10 : Digits[k] = c) - 1
\* unicode.IsSpace restricted to the characters of the model (fmt/scan.go isSpace)
IsSpace(c) == c \in {" ", CR}

RECURSIVE Dec(_)
\* strconv decimal text of a non-negative integer
Dec(n) == IF n < 10 THEN <<Digits[n + 1]>> ELSE Dec(n \div 10) \o <<Digits[(n % 10) + 1]>>

RECURSIVE Zeros(_)
Zeros(k) == IF k <= 0 THEN <<>> ELSE <<"0">> \o Zeros(k - 1)

\* fmt verb %0wd : at least w characters, zero padded, never truncated
PadZero(n, w) == Zeros(w - Len(Dec(n))) \o Dec(n)

RECURSIVE StripZeros(_)
StripZeros(t) == IF Len(t) > 1 /\ Head(t) = "0" THEN StripZeros(Tail(t)) ELSE t

RECURSIVE LexLeq(_, _)
\* a <= b for two digit texts of the same length
LexLeq(a, b) ==
    IF a = <<>> THEN TRUE
    ELSE IF DigitVal(Head(a)) < DigitVal(Head(b)) THEN TRUE
    ELSE IF DigitVal(Head(a)) > DigitVal(Head(b)) THEN FALSE
    ELSE LexLeq(Tail(a), Tail(b))

\* largest value of an unsigned integer of the given size, as text
MaxText(bits) ==
    CASE bits = 8 -> <<"2", "5", "5">>
      [] bits = 16 -> <<"6", "5", "5", "3", "5">>
      [] bits = 32 -> <<"4", "2", "9", "4", "9", "6", "7", "2", "9", "5">>

\* scanUint's range check: the token fits the destination's size
FitsBits(tok, bits) ==
    LET t == StripZeros(tok)
        m == MaxText(bits)
    IN  \/ Len(t) < Len(m)
        \/ Len(t) = Len(m) /\ LexLeq(t, m)

RECURSIVE ParseUint(_)
\* strconv.ParseUint(tok, 10, 64) of a digit text
ParseUint(tok) ==
    IF tok = <<>> THEN 0
    ELSE 10 * ParseUint(SubSeq(tok, 1, Len(tok) - 1)) + DigitVal(tok[Len(tok)])


(***************************************************************************)
(* MemoryEntry and the wire formats (main.go 189-216)                      *)
(***************************************************************************)
\* the 16 numeric fields of MemoryEntry in declaration order, then Name
FieldNames ==
    <<"Number", "RXFrequency", "RXStepSize", "ShiftDirection", "ReverseEnabled",
      "ToneEnabled", "CTCSSEnabled", "DCSEnabled", "ToneFrequency", "CTCSSFrequency",
      "DCSFrequency", "OffsetFrequency", "Mode", "TXFrequency", "TXStepSize",
      "LockOut", "Name">>

\* size in bits of each numeric field (uint16, uint32, uint8, ...)
FieldBits == <<16, 32, 8, 8, 8, 8, 8, 8, 16, 16, 16, 32, 8, 32, 8, 8>>

\* MemoryEntry{} : the zero value
ZeroEntry ==
    [Number |-> 0, RXFrequency |-> 0, RXStepSize |-> 0, ShiftDirection |-> 0,
     ReverseEnabled |-> 0, ToneEnabled |-> 0, CTCSSEnabled |-> 0, DCSEnabled |-> 0,
     ToneFrequency |-> 0, CTCSSFrequency |-> 0, DCSFrequency |-> 0,
     OffsetFrequency |-> 0, Mode |-> 0, TXFrequency |-> 0, TXStepSize |-> 0,
     LockOut |-> 0, Name |-> <<>>]

\* format tokens: a literal character, a run of spaces, %0wd, %s
Lit(c) == [t |-> "lit", c |-> c, w |-> 0]
Sp == [t |-> "sp", c |-> " ", w |-> 0]
D(w) == [t |-> "d", c |-> "", w |-> w]
S == [t |-> "s", c |-> "", w |-> 0]

\* MEFormat with %02d for the DCS frequency
MEFormatNarrowDCS ==
    <<Lit("M"), Lit("E"), Sp, D(3), Lit(","), D(10), Lit(","), D(1), Lit(","), D(1),
      Lit(","), D(1), Lit(","), D(1), Lit(","), D(1), Lit(","), D(1), Lit(","), D(2),
      Lit(","), D(2), Lit(","), D(2), Lit(","), D(8), Lit(","), D(1), Lit(","), D(10),
      Lit(","), D(1), Lit(","), D(1)>>
\* "ME %03d,%010d,%1d,%1d,%1d,%1d,%1d,%1d,%02d,%02d,%03d,%08d,%1d,%010d,%1d,%1d"
MEFormat ==
    <<Lit("M"), Lit("E"), Sp, D(3), Lit(","), D(10), Lit(","), D(1), Lit(","), D(1),
      Lit(","), D(1), Lit(","), D(1), Lit(","), D(1), Lit(","), D(1), Lit(","), D(2),
      Lit(","), D(2), Lit(","), D(3), Lit(","), D(8), Lit(","), D(1), Lit(","), D(10),
      Lit(","), D(1), Lit(","), D(1)>>
\* "MN %03d,%s"
MNFormat == <<Lit("M"), Lit("N"), Sp, D(3), Lit(","), S>>
\* "ID\r"
IDCommandFormat == <<"I", "D", CR>>
\* "ME %03d\r"
MECommandFormat == <<Lit("M"), Lit("E"), Sp, D(3), Lit(CR)>>
\* "MN %03d\r"
MNCommandFormat == <<Lit("M"), Lit("N"), Sp, D(3), Lit(CR)>>
\* "ID %s"
IDFormat == <<Lit("I"), Lit("D"), Sp, S>>
\* "ME %03d,C\r" (the clear command, written inline in WriteChannel)
ClearCommandFormat == <<Lit("M"), Lit("E"), Sp, D(3), Lit(","), Lit("C"), Lit(CR)>>

RECURSIVE SprintfFrom(_, _, _, _)
SprintfFrom(format, fi, args, ai) ==
    IF fi > Len(format) THEN <<>>
    ELSE LET tok == format[fi]
         IN  CASE tok.t = "d" -> PadZero(args[ai], tok.w) \o SprintfFrom(format, fi + 1, args, ai + 1)
               [] tok.t = "s" -> args[ai] \o SprintfFrom(format, fi + 1, args, ai + 1)
               [] OTHER -> <<tok.c>> \o SprintfFrom(format, fi + 1, args, ai)

\* fmt.Sprintf for the verbs the program uses
Sprintf(format, args) == SprintfFrom(format, 1, args, 1)

RECURSIVE SkipSpace(_, _)
\* ss.SkipSpace: the first position at or after p that holds no space
SkipSpace(in, p) == IF p <= Len(in) /\ IsSpace(in[p]) THEN SkipSpace(in, p + 1) ELSE p

RECURSIVE DigitRun(_, _, _)
\* number of digits at p, at most w of them (ss.scanNumber under the verb's width)
DigitRun(in, p, w) ==
    IF w > 0 /\ p <= Len(in) /\ IsDigit(in[p]) THEN 1 + DigitRun(in, p + 1, w - 1) ELSE 0

RECURSIVE TokenRun(_, _)
\* number of non-space characters at p (ss.token for %s)
TokenRun(in, p) == IF p <= Len(in) /\ ~IsSpace(in[p]) THEN 1 + TokenRun(in, p + 1) ELSE 0

RECURSIVE doScanf(_, _, _, _, _, _)
\* fmt (*ss).doScanf: vals are the operands stored so far; err is the error result
doScanf(format, fi, in, p, vals, bits) ==
    IF fi > Len(format) THEN [n |-> Len(vals), err |-> FALSE, vals |-> vals]
    ELSE LET tok == format[fi]
             fail == [n |-> Len(vals), err |-> TRUE, vals |-> vals]
             q == SkipSpace(in, p)
         IN  CASE tok.t = "lit" ->
                    IF p > Len(in) \/ in[p] # tok.c THEN fail
                    ELSE doScanf(format, fi + 1, in, p + 1, vals, bits)
               [] tok.t = "sp" ->
                    IF p <= Len(in) /\ ~IsSpace(in[p]) THEN fail
                    ELSE doScanf(format, fi + 1, in, q, vals, bits)
               [] tok.t = "d" ->
                    LET k == DigitRun(in, q, tok.w)
                        num == SubSeq(in, q, q + k - 1)
                    IN  IF k = 0 \/ ~FitsBits(num, bits[Len(vals) + 1]) THEN fail
                        ELSE doScanf(format, fi + 1, in, q + k,
                                     Append(vals, ParseUint(num)), bits)
               [] tok.t = "s" ->
                    LET k == TokenRun(in, q)
                    IN  IF k = 0 THEN fail
                        ELSE doScanf(format, fi + 1, in, q + k,
                                     Append(vals, SubSeq(in, q, q + k - 1)), bits)

\* fmt.Sscanf: (number of operands stored, error, the operands stored)
Sscanf(line, format, bits) == doScanf(format, 1, line, 1, <<>>, bits)

\* reflect: the values of the struct's fields in declaration order
StructFieldValues(m) == [k \in 1..17 |-> m[FieldNames[k]]]

\* reflect: storing vals through the pointers to the first Len(vals) fields of m
StructFieldPointers(m, vals) ==
    LET v(k) == IF k <= Len(vals) THEN vals[k] ELSE m[FieldNames[k]]
    IN  [Number |-> v(1), RXFrequency |-> v(2), RXStepSize |-> v(3),
         ShiftDirection |-> v(4), ReverseEnabled |-> v(5), ToneEnabled |-> v(6),
         CTCSSEnabled |-> v(7), DCSEnabled |-> v(8), ToneFrequency |-> v(9),
         CTCSSFrequency |-> v(10), DCSFrequency |-> v(11), OffsetFrequency |-> v(12),
         Mode |-> v(13), TXFrequency |-> v(14), TXStepSize |-> v(15),
         LockOut |-> v(16), Name |-> m.Name]

(***************************************************************************)
(* strings package                                                         *)
(***************************************************************************)
HasPrefix(s, prefix) == Len(s) >= Len(prefix) /\ SubSeq(s, 1, Len(prefix)) = prefix
TrimSuffix(s, c) == IF Len(s) > 0 /\ s[Len(s)] = c THEN SubSeq(s, 1, Len(s) - 1) ELSE s

RECURSIVE SplitFrom(_, _, _, _)
\* strings.Split: cur is the piece being collected from position p on
SplitFrom(s, sep, p, cur) ==
    IF p > Len(s) THEN <<cur>>
    ELSE IF s[p] = sep THEN <<cur>> \o SplitFrom(s, sep, p + 1, <<>>)
    ELSE SplitFrom(s, sep, p + 1, Append(cur, s[p]))
Split(s, sep) == SplitFrom(s, sep, 1, <<>>)

\* the empty marker "N\r"
EmptyMarker == <<"N", CR>>

(***************************************************************************)
(* Errors: the chain of messages, outermost first; <<>> is nil             *)
(***************************************************************************)
Msg(tag, text, chan) == [tag |-> tag, text |-> text, chan |-> chan]
Wrap(m, err) == <<m>> \o err
NoChan == <<>>
Nil == <<>>

(***************************************************************************)
(* The codec (main.go 236-277)                                             *)
(***************************************************************************)
\* (m *MemoryEntry) ReadNameLine(line): the error result and m afterwards
ReadNameLine(m, line) ==
    IF line # EmptyMarker
    THEN LET items == Split(TrimSuffix(line, CR), ",")
         IN  IF ~HasPrefix(items[1], <<"M", "N">>)
             THEN [err |-> <<Msg("error reading nameline", TrimSuffix(line, CR), NoChan)>>,
                   m |-> m]
             ELSE IF Len(items) < 2 \/ items[2] = <<>>
                  THEN [err |-> Nil, m |-> [m EXCEPT !.Name = <<>>]]
                  ELSE [err |-> Nil, m |-> [m EXCEPT !.Name = items[2]]]
    ELSE [err |-> Nil, m |-> m]

\* (m *MemoryEntry) ReadChannelLine(line): the error result and m afterwards
ReadChannelLine(m, line) ==
    IF line # EmptyMarker
    THEN LET r == Sscanf(line, MEFormat, FieldBits)
             stored == StructFieldPointers(m, r.vals)
         IN  IF r.err
             THEN [err |-> <<Msg("error parsing channel line", line, NoChan)>>, m |-> stored]
             ELSE IF r.n < 15
             THEN [err |-> <<Msg("ME command returned less items", <<>>, NoChan)>>,
                   m |-> stored]
             ELSE [err |-> Nil, m |-> stored]
    ELSE [err |-> Nil, m |-> m]

\* (m *MemoryEntry) WriteNameLine()
WriteNameLine(m) ==
    LET n == IF Len(m.Name) > 8 THEN SubSeq(m.Name, 1, 8) ELSE m.Name
    IN  Sprintf(MNFormat, <<m.Number, n>>)

\* (m *MemoryEntry) WriteChannelLine()
WriteChannelLine(m) == Sprintf(MEFormat, SubSeq(StructFieldValues(m), 1, 16))

(***************************************************************************)
(* State                                                                   *)
(***************************************************************************)
VARIABLES
    Memory,       \* r.Memory : slot -> MemoryEntry
    Model,        \* r.Model
    werr,         \* r.PortRW's writer holds an error (bufio keeps it for good)
    outstanding,  \* commands written to the port whose response line was not read
    stage,        \* where the caller stands
    op,           \* the operation called last
    pc,           \* where that operation stands ("idle": it has returned)
    i,            \* loop index of ReadMemory / range index of WriteMemory
    occ,          \* the slice WriteMemory ranges over
    channel,      \* WriteChannel's argument
    ch,           \* WriteChannel's local ch
    chline,       \* ReadChannel's local chline
    nameline,     \* ReadChannel's local nameline
    trace,        \* port traffic of the operation: commands written, lines read
    result,       \* what the operation returned
    Memory0,      \* r.Memory when the operation was called
    cstep,        \* the codec on its own: what was applied last
    cin,          \* the entry given to the encoder
    cline,        \* the line the encoder returned, with its carriage return
    cout          \* what the decoder returned for cline

vars == <<Memory, Model, werr, outstanding, stage, op, pc, i, occ, channel, ch,
          chline, nameline, trace, result, Memory0, cstep, cin, cline, cout>>

\* the variables of the codec on its own
codec == <<cstep, cin, cline, cout>>

Slots == 0..(NSlots - 1)

(***************************************************************************)
(* Values the environment supplies                                         *)
(***************************************************************************)
\* entries a loaded snapshot may hold
EntA == [ZeroEntry EXCEPT !.Number = 1, !.RXFrequency = 146520000,
                          !.TXFrequency = 146520000, !.Name = <<"A", "B">>]
EntB == [ZeroEntry EXCEPT !.Number = 2, !.Mode = 1, !.Name = <<"X">>]
EntC == [ZeroEntry EXCEPT !.Number = 2, !.RXFrequency = 438000000, !.ToneEnabled = 1,
                          !.ToneFrequency = 8, !.OffsetFrequency = 7600000,
                          !.Name = <<"L", "O", "N", "G", "-", "N", "A", "M", "E">>]
EntryPool == {ZeroEntry, EntA, EntB, EntC}

\* the device's lines for EntA
MELineA == WriteChannelLine(EntA) \o <<CR>>
MNLineA == WriteNameLine(EntA) \o <<CR>>
\* a numeric line that stops after the 15th field
ShortLine == SubSeq(MELineA, 1, Len(MELineA) - 3) \o <<CR>>
RejectLine == <<"?", CR>>
IDLine == <<"I", "D", " ", "T", "H", CR>>
\* lines the device may answer with, by the command it answers
Responses(command) ==
    IF command = IDCommandFormat THEN {IDLine, EmptyMarker, RejectLine}
    ELSE IF ~Sscanf(command, MECommandFormat, <<16>>).err
         THEN {EmptyMarker, MELineA, ShortLine, RejectLine}
    ELSE IF ~Sscanf(command, MNCommandFormat, <<16>>).err
         THEN {EmptyMarker, MNLineA, ShortLine, RejectLine}
         ELSE {EmptyMarker, RejectLine}

\* what the port does with one command: the write fails, the read fails, or a line
Outcomes(command) ==
    {[kind |-> "werr", line |-> <<>>], [kind |-> "rerr", line |-> <<>>]}
        \cup {[kind |-> "line", line |-> l] : l \in Responses(command)}

\* arguments WriteChannel is called with
ChannelArgs == 0..NSlots

(***************************************************************************)
(* The command channel (main.go 42-77)                                     *)
(***************************************************************************)
\* (r *Radio) WriteString(command) under outcome o: the error returned
WriteString(command, o) ==
    IF werr THEN <<Msg("error writing string to radio", command, NoChan), Msg("io", <<>>, NoChan)>>
    ELSE IF o.kind = "werr"
         THEN <<Msg("error flushing serial IO", command, NoChan), Msg("io", <<>>, NoChan)>>
         ELSE Nil

\* (r *Radio) ReadString() under outcome o
ReadString(o) ==
    IF o.kind = "rerr"
    THEN [line |-> <<>>, err |-> <<Msg("error reading from radio", <<>>, NoChan), Msg("io", <<>>, NoChan)>>]
    ELSE [line |-> o.line, err |-> Nil]

\* WriteReadString without the test for a leading ?
WriteReadStringNoReject(command, o) ==
    LET we == WriteString(command, o)
        rd == ReadString(o)
    IN  IF we # Nil
        THEN [line |-> <<>>, err |-> Wrap(Msg("error writing to radio", <<>>, NoChan), we),
              wrote |-> FALSE, read |-> FALSE, raw |-> <<>>]
        ELSE IF rd.err # Nil
        THEN [line |-> <<>>, err |-> Wrap(Msg("error reading from radio", <<>>, NoChan), rd.err),
              wrote |-> TRUE, read |-> FALSE, raw |-> <<>>]
        ELSE [line |-> rd.line, err |-> Nil, wrote |-> TRUE, read |-> TRUE, raw |-> rd.line]

\* (r *Radio) WriteReadString(command) under outcome o
WriteReadString(command, o) ==
    LET we == WriteString(command, o)
        rd == ReadString(o)
    IN  IF we # Nil
        THEN [line |-> <<>>, err |-> Wrap(Msg("error writing to radio", <<>>, NoChan), we),
              wrote |-> FALSE, read |-> FALSE, raw |-> <<>>]
        ELSE IF rd.err # Nil
        THEN [line |-> <<>>, err |-> Wrap(Msg("error reading from radio", <<>>, NoChan), rd.err),
              wrote |-> TRUE, read |-> FALSE, raw |-> <<>>]
        ELSE IF HasPrefix(rd.line, <<"?">>)
        THEN [line |-> <<>>, err |-> <<Msg("radio sent ?", command, NoChan)>>,
              wrote |-> TRUE, read |-> TRUE, raw |-> rd.line]
        ELSE [line |-> rd.line, err |-> Nil, wrote |-> TRUE, read |-> TRUE, raw |-> rd.line]

\* the port's side of one WriteReadString
Port(command, t) ==
    /\ trace' = trace \o (IF t.wrote THEN <<[ev |-> "write", text |-> command]>> ELSE <<>>)
                      \o (IF t.read THEN <<[ev |-> "read", text |-> t.raw]>> ELSE <<>>)
    /\ outstanding' = outstanding + (IF t.wrote THEN 1 ELSE 0) - (IF t.read THEN 1 ELSE 0)
    /\ werr' = (werr \/ ~t.wrote)
    /\ UNCHANGED codec

(***************************************************************************)
(* Initial state: NewRadio (main.go 279-291)                               *)
(***************************************************************************)
NoResult == [op |-> "none", err |-> Nil]

Init ==
    /\ Memory = [s \in Slots |-> ZeroEntry]
    /\ Model = <<>>
    /\ werr = FALSE
    /\ outstanding = 0
    /\ stage = "new"
    /\ op = "none"
    /\ pc = "idle"
    /\ i = 0
    /\ occ = <<>>
    /\ channel = 0
    /\ ch = ZeroEntry
    /\ chline = <<>>
    /\ nameline = <<>>
    /\ trace = <<>>
    /\ result = NoResult
    /\ Memory0 = [s \in Slots |-> ZeroEntry]
    /\ cstep = "off"
    /\ cin = ZeroEntry
    /\ cline = <<>>
    /\ cout = [err |-> Nil, m |-> ZeroEntry]

\* operation o is entered: the per-call bookkeeping
Enter(o) ==
    /\ pc = "idle"
    /\ op' = o
    /\ trace' = <<>>
    /\ UNCHANGED codec
    /\ Memory0' = Memory
    /\ chline' = <<>>
    /\ nameline' = <<>>

\* operation o returns err
ReturnAs(o, err) ==
    /\ pc' = "idle"
    /\ result' = [op |-> o, err |-> err]
Return(err) == ReturnAs(op, err)

(***************************************************************************)
(* Loading a snapshot (main.go 334-341)                                    *)
(***************************************************************************)
\* copy(r.Memory, loadedMemories) into a fresh bank
Load ==
    \E loaded \in [Slots -> EntryPool] :
        /\ Enter("LoadMemory")
        /\ Memory' = loaded
        /\ pc' = "idle"
        /\ result' = [op |-> "LoadMemory", err |-> Nil]
        /\ UNCHANGED <<Model, werr, outstanding, i, occ, channel, ch>>

(***************************************************************************)
(* Identify (main.go 79-89)                                                *)
(***************************************************************************)
Identify ==
    /\ Enter("Identify")
    /\ pc' = "id"
    /\ result' = NoResult
    /\ UNCHANGED <<Memory, Model, werr, outstanding, i, occ, channel, ch>>

IdentifyStep ==
    /\ pc = "id"
    /\ \E o \in Outcomes(IDCommandFormat) :
       \E t \in {WriteReadString(IDCommandFormat, o)} :
        LET sc == Sscanf(t.line, IDFormat, <<>>)
        IN  /\ Port(IDCommandFormat, t)
            /\ IF t.err # Nil
               THEN /\ Return(Wrap(Msg("error while reading ident sequence from radio", <<>>, NoChan), t.err))
                    /\ Model' = Model
               ELSE IF sc.err
               THEN /\ Return(<<Msg("error while parsing identification sequence from radio", <<>>, NoChan),
                                Msg("scan", t.line, NoChan)>>)
                    /\ Model' = Model
               ELSE /\ Return(Nil)
                    /\ Model' = sc.vals[1]
            /\ UNCHANGED <<Memory, stage, op, i, occ, channel, ch, chline, nameline, Memory0>>

(***************************************************************************)
(* ReadChannel and ReadMemory (main.go 91-113, 159-168)                    *)
(***************************************************************************)
ReadMemory ==
    /\ Enter("ReadMemory")
    /\ pc' = "rc_me"
    /\ i' = 0
    /\ result' = NoResult
    /\ UNCHANGED <<Memory, Model, werr, outstanding, occ, channel, ch>>

\* ReadMemoryStore that stores one slot further
ReadMemoryStoreNext(m, e) ==
    /\ Memory' = [Memory EXCEPT ![(i + 1) % NSlots] = m]
    /\ IF e # Nil
       THEN /\ Return(Wrap(Msg("error reading memory", <<>>, NoChan), e))
            /\ i' = i
       ELSE IF i + 1 <= NSlots - 1
       THEN /\ pc' = "rc_me"
            /\ i' = i + 1
            /\ result' = result
       ELSE /\ Return(Nil)
            /\ i' = i + 1

\* ReadMemoryStore that starts from an empty bank again when ReadChannel fails
ReadMemoryStoreReset(m, e) ==
    /\ Memory' = IF e # Nil THEN [s \in Slots |-> ZeroEntry] ELSE [Memory EXCEPT ![i] = m]
    /\ IF e # Nil
       THEN /\ Return(Wrap(Msg("error reading memory", <<>>, NoChan), e))
            /\ i' = i
       ELSE IF i + 1 <= NSlots - 1
       THEN /\ pc' = "rc_me"
            /\ i' = i + 1
            /\ result' = result
       ELSE /\ Return(Nil)
            /\ i' = i + 1

\* ReadMemoryStore that leaves slot i alone when ReadChannel fails
ReadMemoryStoreKeep(m, e) ==
    /\ Memory' = IF e # Nil THEN Memory ELSE [Memory EXCEPT ![i] = m]
    /\ IF e # Nil
       THEN /\ Return(Wrap(Msg("error reading memory", <<>>, NoChan), e))
            /\ i' = i
       ELSE IF i + 1 <= NSlots - 1
       THEN /\ pc' = "rc_me"
            /\ i' = i + 1
            /\ result' = result
       ELSE /\ Return(Nil)
            /\ i' = i + 1

\* ReadMemory's loop body once ReadChannel(i) returned (m, e)
ReadMemoryStore(m, e) ==
    /\ Memory' = [Memory EXCEPT ![i] = m]
    /\ IF e # Nil
       THEN /\ Return(Wrap(Msg("error reading memory", <<>>, NoChan), e))
            /\ i' = i
       ELSE IF i + 1 <= NSlots - 1
       THEN /\ pc' = "rc_me"
            /\ i' = i + 1
            /\ result' = result
       ELSE /\ Return(Nil)
            /\ i' = i + 1

\* ReadChannel: the numeric read command
ReadChannelME ==
    /\ pc = "rc_me"
    /\ \E cmd \in {Sprintf(MECommandFormat, <<i>>)} :
       \E o \in Outcomes(cmd) :
       \E t \in {WriteReadString(cmd, o)} :
            /\ Port(cmd, t)
            /\ IF t.err # Nil
               THEN /\ ReadMemoryStore(ZeroEntry, Wrap(Msg("error while reading channel", <<>>, NoChan), t.err))
                    /\ UNCHANGED <<chline, nameline>>
               ELSE /\ chline' = t.line
                    /\ pc' = "rc_mn"
                    /\ UNCHANGED <<Memory, i, result, nameline>>
            /\ UNCHANGED <<Model, stage, op, occ, channel, ch, Memory0>>

\* ReadChannel: the name read command, then both lines are decoded
ReadChannelMN ==
    /\ pc = "rc_mn"
    /\ \E cmd \in {Sprintf(MNCommandFormat, <<i>>)} :
       \E num \in {ReadChannelLine(ZeroEntry, chline)} :
       \E o \in Outcomes(cmd) :
       \E t \in {WriteReadString(cmd, o)} :
        LET nam == ReadNameLine(num.m, t.line)
        IN  /\ Port(cmd, t)
            /\ IF t.err # Nil
               THEN /\ ReadMemoryStore(ZeroEntry, Wrap(Msg("error while reading channel name", <<>>, NoChan), t.err))
                    /\ nameline' = nameline
               ELSE /\ nameline' = t.line
                    /\ IF num.err # Nil
                       THEN ReadMemoryStore(ZeroEntry,
                                Wrap(Msg("error parsing channel line", <<>>, NoChan), num.err))
                       ELSE IF nam.err # Nil
                       THEN ReadMemoryStore(ZeroEntry,
                                Wrap(Msg("error parsing name line", <<>>, NoChan), nam.err))
                       ELSE ReadMemoryStore(nam.m, Nil)
            /\ UNCHANGED <<Model, stage, op, occ, channel, ch, chline, Memory0>>

(***************************************************************************)
(* OccupedChannels (main.go 170-177)                                       *)
(***************************************************************************)
RECURSIVE OccupedFrom(_, _)
OccupedFrom(mem, s) ==
    IF s > NSlots - 1 THEN <<>>
    ELSE (IF mem[s].RXFrequency # 0 THEN <<mem[s]>> ELSE <<>>) \o OccupedFrom(mem, s + 1)

RECURSIVE OccupedByNumberFrom(_, _)
OccupedByNumberFrom(mem, s) ==
    IF s > NSlots - 1 THEN <<>>
    ELSE (IF mem[s].Number # 0 THEN <<mem[s]>> ELSE <<>>) \o OccupedByNumberFrom(mem, s + 1)

\* OccupedChannels that tests Number in place of RXFrequency
OccupedChannelsByNumber(mem) == OccupedByNumberFrom(mem, 0)

\* (r *Radio) OccupedChannels()
OccupedChannels(mem) == OccupedFrom(mem, 0)

Occuped ==
    /\ Enter("OccupedChannels")
    /\ occ' = OccupedChannels(Memory)
    /\ ReturnAs("OccupedChannels", Nil)
    /\ UNCHANGED <<Memory, Model, werr, outstanding, i, channel, ch>>

(***************************************************************************)
(* WriteChannel and WriteMemory (main.go 115-157, 179-187)                 *)
(***************************************************************************)
RECURSIVE LookupFrom(_, _, _)
LookupFrom(mem, number, s) ==
    IF s > NSlots - 1 THEN ZeroEntry
    ELSE IF mem[s].Number = number THEN mem[s]
    ELSE LookupFrom(mem, number, s + 1)

\* WriteChannel's closure: the first entry whose Number is uint16(channel)
Lookup(mem, n) == LookupFrom(mem, n % 65536, 0)

\* WriteChannelEnter without the test for an empty channel
WriteChannelEnterUnchecked(o, n, wrap) ==
    /\ channel' = n
    /\ ch' = Lookup(Memory, n)
    /\ pc' = "wc_clear"
    /\ result' = NoResult

\* WriteChannel(n) up to its first command, called by operation o; wrap is
\* what the caller puts around WriteChannel's error
WriteChannelEnter(o, n, wrap) ==
    LET c == Lookup(Memory, n)
    IN  /\ channel' = n
        /\ ch' = c
        /\ IF c.RXFrequency = 0
           THEN ReturnAs(o, wrap \o <<Msg("error: attempted to write empty channel", <<>>, <<n>>)>>)
           ELSE /\ pc' = "wc_clear"
                /\ result' = NoResult

\* WriteMemory's message around a failure of WriteChannel(int(m.Number))
WriteMemoryMsg(m) == <<Msg("error writing channel to radio", <<>>, <<m.Number>>)>>

\* WriteMemory's range loop at index idx of list
WriteMemoryLoop(list, idx) ==
    /\ i' = idx
    /\ IF idx >= Len(list)
       THEN /\ ReturnAs("WriteMemory", Nil)
            /\ UNCHANGED <<channel, ch>>
       ELSE WriteChannelEnter("WriteMemory", list[idx + 1].Number, WriteMemoryMsg(list[idx + 1]))

WriteChannel(n) ==
    /\ Enter("WriteChannel")
    /\ WriteChannelEnter("WriteChannel", n, Nil)
    /\ UNCHANGED <<Memory, Model, werr, outstanding, i, occ>>

WriteMemory ==
    /\ Enter("WriteMemory")
    /\ occ' = OccupedChannels(Memory)
    /\ WriteMemoryLoop(occ', 0)
    /\ UNCHANGED <<Memory, Model, werr, outstanding>>

\* WriteChannelReturn with a WriteMemory that goes on to the next channel after a failure
WriteChannelReturnContinue(err) ==
    IF op = "WriteChannel"
    THEN /\ Return(err)
         /\ UNCHANGED <<i, channel, ch>>
    ELSE WriteMemoryLoop(occ, i + 1)

\* WriteChannel returns err to its caller
WriteChannelReturn(err) ==
    IF op = "WriteChannel"
    THEN /\ Return(err)
         /\ UNCHANGED <<i, channel, ch>>
    ELSE IF err # Nil
    THEN /\ Return(WriteMemoryMsg(occ[i + 1]) \o err)
         /\ UNCHANGED <<i, channel, ch>>
    ELSE WriteMemoryLoop(occ, i + 1)

\* WriteChannelCommand that empties the bank's first slot once a command is acknowledged
WriteChannelCommandForget(at, command, msg, next) ==
    /\ pc = at
    /\ \E cmd \in {command} :
       \E o \in Outcomes(cmd) :
       \E t \in {WriteReadString(cmd, o)} :
            /\ Port(cmd, t)
            /\ IF t.err # Nil
               THEN /\ WriteChannelReturn(Wrap(Msg(msg, <<>>, <<channel>>), t.err))
                    /\ Memory' = Memory
               ELSE /\ Memory' = [Memory EXCEPT ![0] = ZeroEntry]
                    /\ IF next = "return"
                       THEN WriteChannelReturn(Nil)
                       ELSE /\ pc' = next
                            /\ UNCHANGED <<i, channel, ch, result>>
            /\ UNCHANGED <<Model, stage, op, occ, chline, nameline, Memory0>>

\* one of WriteChannel's three commands: at, the command, the message on failure, next
WriteChannelCommand(at, command, msg, next) ==
    /\ pc = at
    /\ \E cmd \in {command} :
       \E o \in Outcomes(cmd) :
       \E t \in {WriteReadString(cmd, o)} :
            /\ Port(cmd, t)
            /\ IF t.err # Nil
               THEN WriteChannelReturn(Wrap(Msg(msg, <<>>, <<channel>>), t.err))
               ELSE IF next = "return"
               THEN WriteChannelReturn(Nil)
               ELSE /\ pc' = next
                    /\ UNCHANGED <<i, channel, ch, result>>
            /\ UNCHANGED <<Memory, Model, stage, op, occ, chline, nameline, Memory0>>

\* WriteChannelClear that clears the channel after the one being written
WriteChannelClearNext ==
    WriteChannelCommand("wc_clear", Sprintf(ClearCommandFormat, <<channel + 1>>),
                        "error clearing channel before write", "wc_num")

WriteChannelClear ==
    WriteChannelCommand("wc_clear", Sprintf(ClearCommandFormat, <<channel>>),
                        "error clearing channel before write", "wc_num")

\* WriteChannelNumeric that returns without the name line
WriteChannelNumericLast ==
    WriteChannelCommand("wc_num", WriteChannelLine(ch) \o <<CR>>,
                        "error writing channel data to radio", "return")

WriteChannelNumeric ==
    WriteChannelCommand("wc_num", WriteChannelLine(ch) \o <<CR>>,
                        "error writing channel data to radio", "wc_name")

WriteChannelName ==
    WriteChannelCommand("wc_name", WriteNameLine(ch) \o <<CR>>,
                        "error writing channel name to radio", "return")

(***************************************************************************)
(* Callers.  A harness loads a snapshot or not, then calls one operation.  *)
(***************************************************************************)
LoadMemory ==
    /\ stage = "new"
    /\ stage' = "filled"
    /\ Load

CallOperation(A) ==
    /\ stage \in {"new", "filled"}
    /\ stage' = "end"
    /\ A

IdentifyCall == CallOperation(Identify)
ReadMemoryCall == CallOperation(ReadMemory)
OccupedChannelsCall == CallOperation(Occuped)
WriteChannelCall == \E n \in ChannelArgs : CallOperation(WriteChannel(n))
WriteMemoryCall == CallOperation(WriteMemory)

Next ==
    \/ LoadMemory
    \/ IdentifyCall
    \/ IdentifyStep
    \/ ReadMemoryCall
    \/ ReadChannelME
    \/ ReadChannelMN
    \/ OccupedChannelsCall
    \/ WriteChannelCall
    \/ WriteMemoryCall
    \/ WriteChannelClear
    \/ WriteChannelNumeric
    \/ WriteChannelName

Spec == Init /\ [][Next]_vars

(***************************************************************************)
(* main (main.go 293-350): Identify, its error dropped; the snapshot is    *)
(* loaded; WriteMemory; any other error ends the program (log.Fatal)       *)
(***************************************************************************)
MainInit ==
    /\ Memory = [s \in Slots |-> ZeroEntry]
    /\ Model = <<>> /\ werr = FALSE /\ outstanding = 0
    /\ stage = "main"
    /\ op = "none" /\ pc = "idle" /\ i = 0 /\ occ = <<>> /\ channel = 0
    /\ ch = ZeroEntry /\ chline = <<>> /\ nameline = <<>> /\ trace = <<>>
    /\ result = NoResult
    /\ Memory0 = [s \in Slots |-> ZeroEntry]
    /\ cstep = "off" /\ cin = ZeroEntry /\ cline = <<>>
    /\ cout = [err |-> Nil, m |-> ZeroEntry]

\* r.Identify() : line 300
MainIdentify ==
    /\ stage = "main"
    /\ stage' = "identify"
    /\ Identify

\* lines 328-342; the file cannot be read or parsed: log.Fatal
MainLoad ==
    /\ stage = "identify"
    /\ pc = "idle"
    /\ \/ /\ stage' = "loaded"
          /\ Load
       \/ /\ stage' = "exit"
          /\ UNCHANGED <<Memory, Model, werr, outstanding, op, pc, i, occ, channel, ch,
                         chline, nameline, trace, result, Memory0, cstep, cin, cline, cout>>

\* r.WriteMemory() : line 345
MainWriteMemory ==
    /\ stage = "loaded"
    /\ stage' = "write"
    /\ WriteMemory

\* lines 345-349: WriteMemory has returned
MainExit ==
    /\ stage = "write"
    /\ pc = "idle"
    /\ stage' = "exit"
    /\ UNCHANGED <<Memory, Model, werr, outstanding, op, pc, i, occ, channel, ch,
                   chline, nameline, trace, result, Memory0, cstep, cin, cline, cout>>

MainNext ==
    \/ MainIdentify
    \/ IdentifyStep
    \/ MainLoad
    \/ MainWriteMemory
    \/ WriteChannelClear
    \/ WriteChannelNumeric
    \/ WriteChannelName
    \/ MainExit

MainSpec == MainInit /\ [][MainNext]_vars

(***************************************************************************)
(* The codec on its own: an entry is encoded, the line is decoded          *)
(***************************************************************************)
\* entries given to the encoder: values at, inside and beyond each field's width
CodecNumbers == {0, 7, 999, 1000}
CodecFrequencies == {0, 1, 146520000, 2147483647}
CodecFlags == {<<0, 0, 0, 0, 0, 0>>, <<1, 2, 3, 4, 5, 6>>, <<9, 0, 0, 0, 0, 10>>}
CodecTones == {<<0, 0, 0>>, <<8, 99, 999>>, <<100, 7, 23>>, <<1, 2, 1000>>}
CodecOffsets == {0, 600000, 99999999, 100000000}
CodecTails == {<<0, 0, 0>>, <<7, 8, 9>>, <<1, 0, 255>>}
CodecNames ==
    {<<>>, <<"A">>, <<"N">>, <<"A", ",", "B">>, <<"1", "2", "3", "4", "5", "6", "7", "8">>,
     <<"1", "2", "3", "4", "5", "6", "7", "8", "9">>, <<"a", " ", "b", CR>>}

CodecEntry(n, rx, fl, tn, off, tl, nm) ==
    [Number |-> n, RXFrequency |-> rx, RXStepSize |-> fl[1], ShiftDirection |-> fl[2],
     ReverseEnabled |-> fl[3], ToneEnabled |-> fl[4], CTCSSEnabled |-> fl[5],
     DCSEnabled |-> fl[6], ToneFrequency |-> tn[1], CTCSSFrequency |-> tn[2],
     DCSFrequency |-> tn[3], OffsetFrequency |-> off, Mode |-> tl[1],
     TXFrequency |-> off + 5, TXStepSize |-> tl[2], LockOut |-> tl[3], Name |-> nm]

CodecInit ==
    /\ Memory = [s \in Slots |-> ZeroEntry]
    /\ Model = <<>> /\ werr = FALSE /\ outstanding = 0
    /\ stage = "codec"
    /\ op = "none" /\ pc = "idle" /\ i = 0 /\ occ = <<>> /\ channel = 0
    /\ ch = ZeroEntry /\ chline = <<>> /\ nameline = <<>> /\ trace = <<>>
    /\ result = NoResult
    /\ Memory0 = [s \in Slots |-> ZeroEntry]
    /\ cstep = "new"
    /\ cline = <<>>
    /\ cout = [err |-> Nil, m |-> ZeroEntry]
    /\ \E n \in CodecNumbers, rx \in CodecFrequencies, fl \in CodecFlags,
          tn \in CodecTones, off \in CodecOffsets, tl \in CodecTails :
          \E nm \in CodecNames : cin = CodecEntry(n, rx, fl, tn, off, tl, nm)

radio == <<Memory, Model, werr, outstanding, stage, op, pc, i, occ, channel, ch,
           chline, nameline, trace, result, Memory0>>

\* line := m.WriteChannelLine() + "\r"
EncodeNumeric ==
    /\ cstep = "new"
    /\ cstep' = "numeric line"
    /\ cline' = WriteChannelLine(cin) \o <<CR>>
    /\ UNCHANGED <<cin, cout, radio>>

\* err := m.ReadChannelLine(line) on a fresh entry
DecodeNumeric ==
    /\ cstep = "numeric line"
    /\ cstep' = "numeric decoded"
    /\ cout' = ReadChannelLine(ZeroEntry, cline)
    /\ UNCHANGED <<cin, cline, radio>>

\* line := m.WriteNameLine() + "\r"
EncodeName ==
    /\ cstep = "new"
    /\ cstep' = "name line"
    /\ cline' = WriteNameLine(cin) \o <<CR>>
    /\ UNCHANGED <<cin, cout, radio>>

\* err := m.ReadNameLine(line) on a fresh entry
DecodeName ==
    /\ cstep = "name line"
    /\ cstep' = "name decoded"
    /\ cout' = ReadNameLine(ZeroEntry, cline)
    /\ UNCHANGED <<cin, cline, radio>>

\* numbers of leading fields a device's numeric line may stop after
ShortFieldCounts == {10, 15}

RECURSIVE JoinFirst(_, _)
\* the first k of items, commas between them
JoinFirst(items, k) ==
    IF k = 0 THEN <<>>
    ELSE IF k = 1 THEN items[1]
    ELSE JoinFirst(items, k - 1) \o <<",">> \o items[k]

\* the numeric line with only its first k fields
CutFields(line, k) == JoinFirst(Split(TrimSuffix(line, CR), ","), k) \o <<CR>>

\* the line reaches the decoder with only its first k fields
ShortenNumeric ==
    /\ cstep = "numeric line"
    /\ cstep' = "short line"
    /\ \E k \in ShortFieldCounts : cline' = CutFields(cline, k)
    /\ UNCHANGED <<cin, cout, radio>>

\* err := m.ReadChannelLine(line) on a fresh entry, the line cut short
DecodeShort ==
    /\ cstep = "short line"
    /\ cstep' = "short decoded"
    /\ cout' = ReadChannelLine(ZeroEntry, cline)
    /\ UNCHANGED <<cin, cline, radio>>

CodecNext ==
    \/ EncodeNumeric
    \/ DecodeNumeric
    \/ EncodeName
    \/ DecodeName
    \/ ShortenNumeric
    \/ DecodeShort

CodecSpec == CodecInit /\ [][CodecNext]_vars

(***************************************************************************)
(* Properties                                                              *)
(***************************************************************************)
\* the commands written during the operation, in order
RECURSIVE CommandsOf(_)
CommandsOf(tr) ==
    IF tr = <<>> THEN <<>>
    ELSE (IF Head(tr).ev = "write" THEN <<Head(tr).text>> ELSE <<>>) \o CommandsOf(Tail(tr))

\* every event at an odd place is a command, every event at an even place its response
Alternates(tr) ==
    \A k \in 1..Len(tr) : tr[k].ev = (IF k % 2 = 1 THEN "write" ELSE "read")

\* the device has acknowledged every command of the operation so far
Acknowledged ==
    /\ ~werr
    /\ outstanding = 0
    /\ \A k \in 1..Len(trace) : trace[k].ev = "read" => ~HasPrefix(trace[k].text, <<"?">>)

\* the channel number as three digits
Three(n) == <<Digits[((n \div 100) % 10) + 1], Digits[((n \div 10) % 10) + 1], Digits[(n % 10) + 1]>>
ClearOf(n) == <<"M", "E", " ">> \o Three(n) \o <<",", "C", CR>>

\* the entry channel n names: the first one of the bank that carries the number
HasNumber(n) == \E s \in Slots : Memory[s].Number = n
SlotOf(n) == CHOOSE s \in Slots : Memory[s].Number = n /\ \A q \in Slots : q < s => Memory[q].Number # n
EntryOf(n) == IF HasNumber(n) THEN Memory[SlotOf(n)] ELSE ZeroEntry

\* the three commands that write entry e as channel n
TripleOf(n, e) == <<ClearOf(n), WriteChannelLine(e) \o <<CR>>, WriteNameLine(e) \o <<CR>>>>

Returned(o) == op = o /\ pc = "idle" /\ result.op = o

\* C1: WriteChannel(n) on an occupied channel, every command acknowledged, makes
\* exactly three transactions, clear then numeric line then name line of the
\* channel, and returns nil.
WriteChannelThreeInOrder ==
    (Returned("WriteChannel") /\ EntryOf(channel).RXFrequency # 0 /\ Acknowledged)
        => /\ result.err = Nil
           /\ Len(trace) = 6
           /\ Alternates(trace)
           /\ CommandsOf(trace) = TripleOf(channel, EntryOf(channel))

WriteChannelThreeInOrderWitness ==
    /\ Returned("WriteChannel")
    /\ EntryOf(channel).RXFrequency # 0
    /\ Acknowledged
    /\ Len(trace) = 6
    /\ Len(EntryOf(channel).Name) > 8

\* C2: WriteChannel(n) on a channel whose RXFrequency is 0, or that no entry
\* carries, touches the port not at all and returns the empty-channel error.
WriteChannelEmptyRefused ==
    (op = "WriteChannel" /\ EntryOf(channel).RXFrequency = 0)
        => /\ pc = "idle"
           /\ trace = <<>>
           /\ outstanding = 0
           /\ ~werr
           /\ result.err = <<Msg("error: attempted to write empty channel", <<>>, <<channel>>)>>

WriteChannelEmptyRefusedWitness ==
    /\ Returned("WriteChannel")
    /\ HasNumber(channel)
    /\ EntryOf(channel).RXFrequency = 0
    /\ EntryOf(channel).Name # <<>>
    /\ result.err # Nil

\* the slots that are occupied, and the k-th of them in ascending order
OccupiedSlots(mem) == {s \in Slots : mem[s].RXFrequency # 0}
NthOccupied(mem, k) ==
    CHOOSE s \in OccupiedSlots(mem) : Cardinality({q \in OccupiedSlots(mem) : q < s}) = k - 1

RECURSIVE TriplesFrom(_, _)
\* the triples of the occupied slots from the k-th on, the slot's position as channel
TriplesFrom(mem, k) ==
    IF k > Cardinality(OccupiedSlots(mem)) THEN <<>>
    ELSE TripleOf(NthOccupied(mem, k), mem[NthOccupied(mem, k)]) \o TriplesFrom(mem, k + 1)

\* every occupied slot carries its position as number
NumberedByPosition(mem) == \A s \in OccupiedSlots(mem) : mem[s].Number = s

\* C3: on a bank whose occupied slots carry their positions, every command
\* acknowledged, WriteMemory makes exactly the 3*k transactions of the occupied
\* slots in ascending order, and none for an empty slot.
WriteMemoryTriples ==
    (Returned("WriteMemory") /\ NumberedByPosition(Memory) /\ Acknowledged)
        => /\ result.err = Nil
           /\ Len(trace) = 6 * Cardinality(OccupiedSlots(Memory))
           /\ Alternates(trace)
           /\ CommandsOf(trace) = TriplesFrom(Memory, 1)

\* C4: OccupedChannels returns the slots with RXFrequency # 0, each once, in
\* ascending slot order, whatever the other fields hold.
OccupedChannelsExact ==
    Returned("OccupedChannels")
        => /\ Len(occ) = Cardinality(OccupiedSlots(Memory))
           /\ \A k \in 1..Len(occ) : occ[k] = Memory[NthOccupied(Memory, k)]

OccupedChannelsExactWitness ==
    /\ Returned("OccupedChannels")
    /\ Len(occ) = 2
    /\ \E s \in Slots : Memory[s].RXFrequency = 0 /\ Memory[s].Name # <<>> /\ Memory[s].Mode # 0
    /\ occ[1] # occ[2]

\* C5: a response line that begins with ? ends the transaction with the error
\* that carries the command sent, and is never handed on as a line.
RejectionDetected ==
    \A k \in 1..Len(trace) :
        (trace[k].ev = "read" /\ HasPrefix(trace[k].text, <<"?">>))
            => /\ k = Len(trace)
               /\ k > 1
               /\ trace[k - 1].ev = "write"
               /\ pc = "idle"
               /\ result.op = op
               /\ \E j \in 1..Len(result.err) :
                    /\ result.err[j].tag = "radio sent ?"
                    /\ result.err[j].text = trace[k - 1].text
               /\ chline # trace[k].text
               /\ nameline # trace[k].text

RejectionDetectedWitness ==
    /\ op = "ReadMemory"
    /\ pc = "idle"
    /\ Len(trace) = 4
    /\ HasPrefix(trace[4].text, <<"?">>)

\* C6: a command is written to the port only when every command written
\* before it has had its response line read.
HalfDuplex == [][Len(trace') > Len(trace) => outstanding = 0]_vars

\* the digit width of each numeric field on the wire
FieldWidths == <<3, 10, 1, 1, 1, 1, 1, 1, 2, 2, 3, 8, 1, 10, 1, 1>>
FitsWidths(e) == \A k \in 1..16 : Len(Dec(e[FieldNames[k]])) <= FieldWidths[k]
SameNumericFields(a, b) == \A k \in 1..16 : a[FieldNames[k]] = b[FieldNames[k]]

\* C7: an entry with RXFrequency # 0 whose numeric fields fit their widths is
\* decoded from its own numeric line without error and with the same 16 fields.
NumericRoundTrip ==
    (cstep = "numeric decoded" /\ cin.RXFrequency # 0 /\ FitsWidths(cin))
        => /\ cout.err = Nil
           /\ SameNumericFields(cout.m, cin)

NumericRoundTripWitness ==
    /\ cstep = "numeric decoded"
    /\ FitsWidths(cin)
    /\ cin.RXFrequency = 2147483647
    /\ cin.Number = 999
    /\ cin.DCSFrequency = 999
    /\ cin.LockOut = 9
    /\ SameNumericFields(cout.m, cin)

First8(name) == IF Len(name) > 8 THEN SubSeq(name, 1, 8) ELSE name

\* C8: the name decoded from an entry's own name line is the entry's name, cut
\* to its first 8 characters when it is longer.
NameRoundTrip ==
    cstep = "name decoded" => (cout.err = Nil /\ cout.m.Name = First8(cin.Name))

\* the wire shapes of the device's answers to the two read commands
AllDigits(t) == \A k \in 1..Len(t) : IsDigit(t[k])
WellFormedNumeric(line) ==
    \/ line = EmptyMarker
    \/ /\ Len(line) > 0
       /\ line[Len(line)] = CR
       /\ LET items == Split(SubSeq(line, 1, Len(line) - 1), ",")
          IN  /\ Len(items) = 16
              /\ Len(items[1]) = 6
              /\ SubSeq(items[1], 1, 3) = <<"M", "E", " ">>
              /\ AllDigits(SubSeq(items[1], 4, 6))
              /\ \A k \in 2..16 :
                    /\ Len(items[k]) = FieldWidths[k]
                    /\ AllDigits(items[k])
                    /\ FitsBits(items[k], FieldBits[k])
WellFormedName(line) ==
    \/ line = EmptyMarker
    \/ /\ Len(line) >= 8
       /\ line[Len(line)] = CR
       /\ SubSeq(line, 1, 3) = <<"M", "N", " ">>
       /\ AllDigits(SubSeq(line, 4, 6))
       /\ line[7] = ","
       /\ Len(line) - 8 <= 8

ReadCommand(letter, s) == <<"M", letter, " ">> \o Three(s) \o <<CR>>
\* the record the codec makes of the two lines
DecodedOf(numeric, name) == ReadNameLine(ReadChannelLine(ZeroEntry, numeric).m, name).m

\* the device answered every command of a ReadMemory run with a well-formed line
AnsweredWellFormed ==
    /\ ~werr
    /\ outstanding = 0
    /\ \A k \in 1..Len(trace) :
          trace[k].ev = "read" =>
              IF trace[k - 1].text[2] = "E" THEN WellFormedNumeric(trace[k].text)
              ELSE WellFormedName(trace[k].text)

\* C9: ReadMemory against a device that answers every command with a well-formed
\* line makes the 2*NSlots transactions ME 0, MN 0, ME 1, MN 1, ... in that order
\* and leaves in every slot the record decoded from the slot's two responses; two
\* empty markers leave RXFrequency 0 and an empty name.
ReadMemoryComplete ==
    Returned("ReadMemory") =>
        /\ AnsweredWellFormed => result.err = Nil
        /\ result.err = Nil =>
            /\ Len(trace) = 4 * NSlots
            /\ Alternates(trace)
            /\ \A s \in Slots :
                  /\ trace[4 * s + 1].text = ReadCommand("E", s)
                  /\ trace[4 * s + 3].text = ReadCommand("N", s)
                  /\ Memory[s] = DecodedOf(trace[4 * s + 2].text, trace[4 * s + 4].text)
                  /\ (trace[4 * s + 2].text = EmptyMarker /\ trace[4 * s + 4].text = EmptyMarker)
                        => (Memory[s].RXFrequency = 0 /\ Memory[s].Name = <<>>)

ReadMemoryCompleteWitness ==
    /\ Returned("ReadMemory")
    /\ result.err = Nil
    /\ AnsweredWellFormed
    /\ Memory0[0].RXFrequency # 0
    /\ trace[2].text = EmptyMarker
    /\ trace[4].text = EmptyMarker
    /\ Memory[0] = ZeroEntry
    /\ Memory[1] = EntA
    /\ Memory0[1] # EntA

\* C10: when ReadMemory fails while processing channel i, every slot above i
\* holds what it held when ReadMemory was called.
ReadMemoryFailureKeepsLater ==
    (Returned("ReadMemory") /\ result.err # Nil)
        => \A s \in Slots : s > i => Memory[s] = Memory0[s]

ReadMemoryFailureKeepsLaterWitness ==
    /\ Returned("ReadMemory")
    /\ result.err # Nil
    /\ i = 1
    /\ Memory[0] = EntA
    /\ Memory0[0] # EntA
    /\ Memory0[NSlots - 1].RXFrequency # 0
    /\ Memory[NSlots - 1] = Memory0[NSlots - 1]

\* message m of an error chain names channel s: by its channel operand, or by
\* carrying a read command or a response line written for channel s
NamesChannel(m, s) ==
    \/ m.chan = <<s>>
    \/ /\ Len(m.text) >= 6
       /\ SubSeq(m.text, 1, 6) \in {<<"M", "E", " ">> \o Three(s), <<"M", "N", " ">> \o Three(s)}

\* C11: when ReadMemory fails while processing channel i, whatever the failure,
\* some message of the error it returns names channel i.
ReadMemoryErrorNamesChannel ==
    (Returned("ReadMemory") /\ result.err # Nil)
        => \E j \in 1..Len(result.err) : NamesChannel(result.err[j], i)

\* a step of the operation has failed: a write error, a command whose response
\* was not read, or a response that begins with ?
StepFailed ==
    \/ werr
    \/ outstanding > 0
    \/ \E k \in 1..Len(trace) : trace[k].ev = "read" /\ HasPrefix(trace[k].text, <<"?">>)

\* C12: once a step of a channel's write has failed during WriteMemory, the
\* operation has returned, the failure is the last thing that happened on the
\* port, and the error returned carries the number of the channel being written.
WriteMemoryAbortsOnFailure ==
    (op = "WriteMemory" /\ StepFailed)
        => /\ pc = "idle"
           /\ result.op = "WriteMemory"
           /\ result.err # Nil
           /\ result.err[1].tag = "error writing channel to radio"
           /\ result.err[1].chan = <<occ[i + 1].Number>>
           /\ result.err[2].chan = <<channel>>
           /\ channel = occ[i + 1].Number
           /\ Len(trace) <= 6 * i + 6
           /\ \A k \in 1..(Len(trace) - 1) :
                 trace[k].ev = "read" => ~HasPrefix(trace[k].text, <<"?">>)

WriteMemoryAbortsOnFailureWitness ==
    /\ Returned("WriteMemory")
    /\ StepFailed
    /\ i = 1
    /\ Len(occ) = 3
    /\ Len(trace) = 10
    /\ HasPrefix(trace[10].text, <<"?">>)

\* C13: during and after WriteChannel, WriteMemory and OccupedChannels, however
\* they end, every slot of the bank holds the entry it held at the call.
WriteLeavesBank ==
    op \in {"WriteChannel", "WriteMemory", "OccupedChannels"}
        => \A s \in Slots : Memory[s] = Memory0[s]

WriteLeavesBankWitness ==
    /\ Returned("WriteMemory")
    /\ result.err # Nil
    /\ Len(trace) = 9
    /\ Len(occ) = 2
    /\ \A s \in Slots : Memory[s] = Memory0[s]
    /\ Memory[1] = EntC

\* the number of comma-separated fields of a line
FieldCount(line) == Len(Split(TrimSuffix(line, CR), ","))

\* C14: a numeric line other than the empty marker decodes without error exactly
\* when it has at least 15 of the 16 fields; with the first 15 fields only, the
\* 15 fields are stored and LockOut stays 0.
NumericDecodeNeeds15 ==
    (cstep = "short decoded" /\ cin.RXFrequency # 0 /\ FitsWidths(cin))
        => /\ (cout.err = Nil) <=> (FieldCount(cline) >= 15)
           /\ FieldCount(cline) = 15
                => /\ cout.m.LockOut = 0
                   /\ \A k \in 1..15 : cout.m[FieldNames[k]] = cin[FieldNames[k]]

\* a numeric line with fewer than 15 fields is refused
NumericDecodeRefusesTen ==
    (cstep = "short decoded" /\ FitsWidths(cin) /\ FieldCount(cline) < 15) => cout.err # Nil

\* C15: WriteChannel(n) works on the entry at position n of the bank: it refuses
\* exactly when slot n is empty, and the lines it sends encode slot n's record.
WriteChannelByPosition ==
    (Returned("WriteChannel") /\ channel \in Slots)
        => /\ (Memory[channel].RXFrequency = 0) <=> (trace = <<>> /\ ~werr /\ result.err # Nil)
           /\ (Memory[channel].RXFrequency # 0 /\ Acknowledged)
                => CommandsOf(trace) = TripleOf(channel, Memory[channel])

\* the channel number a write command addresses, and which of the three it is
CommandChannel(cmd) == ParseUint(SubSeq(cmd, 4, 6))
CommandKind(cmd) ==
    IF cmd[2] = "N" THEN "name" ELSE IF cmd[8] = "C" THEN "clear" ELSE "numeric"

RECURSIVE AckedFor(_, _, _)
\* the kinds of the commands for device channel n that the device acknowledged,
\* in order, from event k of tr on
AckedFor(n, tr, k) ==
    IF k + 1 > Len(tr) THEN <<>>
    ELSE IF /\ tr[k].ev = "write"
            /\ tr[k + 1].ev = "read"
            /\ ~HasPrefix(tr[k + 1].text, <<"?">>)
            /\ CommandChannel(tr[k].text) = n
         THEN <<CommandKind(tr[k].text)>> \o AckedFor(n, tr, k + 2)
         ELSE AckedFor(n, tr, k + 1)

\* the device-side write state of channel n: how far along
\* Unwritten, Cleared, NumericWritten, Committed it is; none of them when the
\* acknowledged commands are not a prefix of clear, numeric, name
WriteStates == <<"Unwritten", "Cleared", "NumericWritten", "Committed">>
DeviceState(n) ==
    LET a == AckedFor(n, trace, 1)
    IN  IF Len(a) <= 3 /\ a = SubSeq(<<"clear", "numeric", "name">>, 1, Len(a))
        THEN WriteStates[Len(a) + 1]
        ELSE "Rewritten"

PoolNumbers == {e.Number : e \in EntryPool}

\* C16: during a WriteMemory run every device channel only moves forward along
\* Unwritten, Cleared, NumericWritten, Committed, never cleared or written a
\* second time; when a step has failed, the occupied channels handled before are
\* Committed and the later ones Unwritten.
WriteStateForward ==
    op = "WriteMemory" =>
        /\ \A n \in PoolNumbers : DeviceState(n) \in {WriteStates[k] : k \in 1..4}
        /\ (pc = "idle" /\ StepFailed) =>
              \A k \in 1..Len(occ) :
                  /\ k < i + 1 => DeviceState(occ[k].Number) = "Committed"
                  /\ k > i + 1 => DeviceState(occ[k].Number) = "Unwritten"

\* Identify has returned an error in this run of main: it has returned, and the
\* model string, which it stores exactly when it succeeds, was not stored
IdentifyFailed == stage \in {"loaded", "write", "exit"} /\ Model = <<>>

\* C17: in a run of main in which Identify failed, no command of WriteMemory
\* (clear, numeric line, name line) is written to the port.
IdentifyFailureStops ==
    (IdentifyFailed /\ op = "WriteMemory") => CommandsOf(trace) = <<>>

\* the response read at event k makes ReadMemory fail: it begins with ?, or it
\* answers a numeric read and does not decode, or it answers a name read and
\* does not decode
FailingResponse(k) ==
    /\ trace[k].ev = "read"
    /\ \/ HasPrefix(trace[k].text, <<"?">>)
       \/ /\ trace[k - 1].text[2] = "E"
          /\ ReadChannelLine(ZeroEntry, trace[k].text).err # Nil
       \/ /\ trace[k - 1].text[2] = "N"
          /\ ReadNameLine(ZeroEntry, trace[k].text).err # Nil

\* C18: once ReadMemory has met a transport error or has read a response that
\* makes it fail, it has returned and nothing more was written to the port.
ReadMemoryStopsAtFailure ==
    op = "ReadMemory" =>
        /\ (werr \/ outstanding > 0) => pc = "idle"
        /\ \A k \in 1..Len(trace) : FailingResponse(k) => (k = Len(trace) /\ pc = "idle")

\* C19: whatever the bank holds, the commands WriteChannel and WriteMemory send
\* come in groups of clear, numeric line, name line, and each group is the group
\* of one record of the bank whose RXFrequency is not 0: all three carry that
\* record's number and the two lines encode that record.
OnlyOccupiedWritten ==
    op \in {"WriteChannel", "WriteMemory"} =>
        LET cmds == CommandsOf(trace)
        IN  \A j \in 0..((Len(cmds) + 2) \div 3 - 1) :
                \E s \in OccupiedSlots(Memory) :
                    \A m \in 1..3 :
                        3 * j + m <= Len(cmds)
                            => cmds[3 * j + m] = TripleOf(Memory[s].Number, Memory[s])[m]

OnlyOccupiedWrittenWitness ==
    /\ Returned("WriteMemory")
    /\ result.err = Nil
    /\ Len(trace) = 12
    /\ Memory[0] = EntC
    /\ Memory[1] = EntB
    /\ Memory[2] = EntA

\* C20: when ReadMemory fails while processing channel i, slot i holds the
\* all-zero entry whatever it held before, so OccupedChannels does not return
\* it, and every slot below i holds the record decoded from its two responses.
ReadMemoryFailureZeroesSlot ==
    (Returned("ReadMemory") /\ result.err # Nil)
        => /\ Memory[i] = ZeroEntry
           /\ Memory[i].RXFrequency = 0
           /\ Memory[i].Name = <<>>
           /\ i \notin OccupiedSlots(Memory)
           /\ Len(OccupedChannels(Memory)) = Cardinality(OccupiedSlots(Memory) \ {i})
           /\ \A s \in Slots :
                 s < i => Memory[s] = DecodedOf(trace[4 * s + 2].text, trace[4 * s + 4].text)

ReadMemoryFailureZeroesSlotWitness ==
    /\ Returned("ReadMemory")
    /\ result.err # Nil
    /\ i = 1
    /\ Memory0[1].RXFrequency # 0
    /\ Memory[1] = ZeroEntry
    /\ Memory[0] = EntA
    /\ Memory0[0] # EntA
    /\ Len(trace) = 8
    /\ trace[6].text = ShortLine
=============================================================================
